---- MODULE Spec2Model ----
(***************************************************************************)
(* State-machine model of arch-voting-contract (src/contract.rs,          *)
(* src/models.rs, src/errors.rs): the VotingContract registry of polls,    *)
(* per-poll ballots and per-poll tallies.                                  *)
(*                                                                         *)
(* The contract reads SystemTime::now() inside vote and                    *)
(* process_expired_polls; the clock is the variable `now`, advanced by the *)
(* environment action Tick.  Every public method is one atomic action      *)
(* (each takes &mut self or &self and runs to completion).                 *)
(***************************************************************************)
EXTENDS Integers, Sequences, FiniteSets, TLC

(* ------------------------------ bounds -------------------------------- *)
MaxPolls == 2
MaxTime == 3
MaxOptions == 2

(* ------------------------------ inputs -------------------------------- *)
Addresses == {"owner", "alice", "bob"}
Creators == {"alice"}
Voters == {"alice", "bob"}
Callers == {"c1", "c2"}
Labels == <<"Red", "Blue", "Green", "Yellow">>
OptionLists == {SubSeq(Labels, 1, n) : n \in 0..MaxOptions}
StartTimes == {1, 3}
EndTimes == {2, 3}
PollIds == 0..MaxPolls
OptionIndexes == 0..MaxOptions

VARIABLES
    polls,          \* poll_id -> Poll
    votes,          \* poll_id -> (wallet_address -> option_index)
    results,        \* poll_id -> VoteResults
    poll_counter,   \* next poll id
    owner,          \* contract owner address
    now,            \* the system clock, in seconds
    last,           \* the most recent call: its arguments and what it returned
    prev,           \* history: the registry as it was when that call began
    created,        \* history: the ids returned by successful create_poll calls
    succ,           \* history: <<poll_id, wallet>> -> number of successful votes
    inflight        \* caller -> the vote call it has issued, and its outcome

vars ==
    <<polls, votes, results, poll_counter, owner, now, last, prev, created, succ, inflight>>

Registry ==
    [polls |-> polls, votes |-> votes, results |-> results,
     poll_counter |-> poll_counter, owner |-> owner]

(* ------------------------------ models.rs ----------------------------- *)
PollSwappedTimes(id, title, description, options, creator, start_time, end_time, active) ==
    [id |-> id, title |-> title, description |-> description, options |-> options,
     creator |-> creator, start_time |-> end_time, end_time |-> start_time,
     active |-> active]

Poll(id, title, description, options, creator, start_time, end_time, active) ==
    [id |-> id, title |-> title, description |-> description, options |-> options,
     creator |-> creator, start_time |-> start_time, end_time |-> end_time,
     active |-> active]

VoteResultsNewOneBased(option_count) ==
    [counts |-> [i \in 1..option_count |-> 0], total_votes |-> 0]

VoteResultsNew(option_count) ==
    [counts |-> [i \in 0..(option_count - 1) |-> 0], total_votes |-> 0]

(* ------------------------------ helpers ------------------------------- *)
Call(op, poll_id, who, option, nopts, start, end, result, ret) ==
    [op |-> op, poll_id |-> poll_id, who |-> who, option |-> option, nopts |-> nopts,
     start |-> start, end |-> end, result |-> result, ret |-> ret, out |-> << >>,
     options |-> << >>]

(* A query: its arguments, its result and the value it returned. *)
Query(op, poll_id, who, result, out) ==
    [Call(op, poll_id, who, 0, 0, 0, 0, result, 0) EXCEPT !.out = out]

Insert(map, key, value) ==
    [k \in DOMAIN map \cup {key} |-> IF k = key THEN value ELSE map[k]]

RECURSIVE SumCounts(_)
SumCounts(counts) ==
    IF DOMAIN counts = {} THEN 0
    ELSE LET i == CHOOSE k \in DOMAIN counts : TRUE
         IN counts[i] + SumCounts([k \in DOMAIN counts \ {i} |-> counts[k]])

NoCall ==
    [state |-> "idle", poll_id |-> 0, who |-> "", option |-> 0, result |-> "",
     overlap |-> FALSE]

(* ------------------------------ contract.rs --------------------------- *)
Init ==
    /\ polls = << >>
    /\ votes = << >>
    /\ results = << >>
    /\ poll_counter = 0
    /\ owner = "owner"
    /\ now = 0
    /\ last = Call("new", 0, "owner", 0, 0, 0, 0, "Ok", 0)
    /\ prev = Registry
    /\ created = << >>
    /\ succ = [pw \in (0..(MaxPolls - 1)) \X Voters |-> 0]
    /\ inflight = [c \in Callers |-> NoCall]

CreateCheckStrictlyAfter(options, start_time, end_time) ==
    IF Len(options) < 2 THEN "InvalidOption"
    ELSE IF start_time > end_time THEN "InvalidTimeRange"
    ELSE "Ok"

CreateCheckTimeFirst(options, start_time, end_time) ==
    IF start_time >= end_time THEN "InvalidTimeRange"
    ELSE IF Len(options) < 2 THEN "InvalidOption"
    ELSE "Ok"

CreateCheck(options, start_time, end_time) ==
    IF Len(options) < 2 THEN "InvalidOption"
    ELSE IF start_time >= end_time THEN "InvalidTimeRange"
    ELSE "Ok"

AllocIdPreIncrement == poll_counter + 1

AllocId == poll_counter

CreatePoll(creator, title, description, options, start_time, end_time) ==
    LET res == CreateCheck(options, start_time, end_time)
        poll_id == AllocId
    IN /\ poll_counter < MaxPolls
       /\ IF res = "Ok"
          THEN /\ poll_counter' = poll_counter + 1
               /\ polls' = Insert(polls, poll_id,
                                  Poll(poll_id, title, description, options, creator,
                                       start_time, end_time, TRUE))
               /\ votes' = Insert(votes, poll_id, << >>)
               /\ results' = Insert(results, poll_id, VoteResultsNew(Len(options)))
               /\ created' = Append(created, poll_id)
          ELSE UNCHANGED <<poll_counter, polls, votes, results, created>>
       /\ last' = [Call("create_poll", 0, creator, 0, Len(options), start_time, end_time,
                        res, IF res = "Ok" THEN poll_id ELSE 0)
                        EXCEPT !.options = options]
       /\ prev' = Registry
       /\ UNCHANGED <<owner, now, succ, inflight>>

(* Variants of the checks of vote, each a one-token slip of the code. *)
VoteCheckNoDuplicateCheck(poll_id, wallet_address, option_index, current_time) ==
    IF poll_id \notin DOMAIN polls THEN "PollNotFound"
    ELSE IF ~polls[poll_id].active THEN "PollNotActive"
    ELSE IF current_time < polls[poll_id].start_time THEN "PollNotActive"
    ELSE IF current_time > polls[poll_id].end_time THEN "PollAlreadyEnded"
    ELSE IF option_index >= Len(polls[poll_id].options) THEN "InvalidOption"
    ELSE "Ok"

VoteCheckSameOptionOnly(poll_id, wallet_address, option_index, current_time) ==
    IF poll_id \notin DOMAIN polls THEN "PollNotFound"
    ELSE IF ~polls[poll_id].active THEN "PollNotActive"
    ELSE IF current_time < polls[poll_id].start_time THEN "PollNotActive"
    ELSE IF current_time > polls[poll_id].end_time THEN "PollAlreadyEnded"
    ELSE IF option_index >= Len(polls[poll_id].options) THEN "InvalidOption"
    ELSE IF /\ wallet_address \in DOMAIN votes[poll_id]
            /\ votes[poll_id][wallet_address] = option_index THEN "AlreadyVoted"
    ELSE "Ok"

VoteCheckAnyPoll(poll_id, wallet_address, option_index, current_time) ==
    IF poll_id \notin DOMAIN polls THEN "PollNotFound"
    ELSE IF ~polls[poll_id].active THEN "PollNotActive"
    ELSE IF current_time < polls[poll_id].start_time THEN "PollNotActive"
    ELSE IF current_time > polls[poll_id].end_time THEN "PollAlreadyEnded"
    ELSE IF option_index >= Len(polls[poll_id].options) THEN "InvalidOption"
    ELSE IF \E q \in DOMAIN votes : wallet_address \in DOMAIN votes[q] THEN "AlreadyVoted"
    ELSE "Ok"

VoteCheckTimeFirst(poll_id, wallet_address, option_index, current_time) ==
    IF poll_id \notin DOMAIN polls THEN "PollNotFound"
    ELSE IF current_time < polls[poll_id].start_time THEN "PollNotActive"
    ELSE IF current_time > polls[poll_id].end_time THEN "PollAlreadyEnded"
    ELSE IF ~polls[poll_id].active THEN "PollNotActive"
    ELSE IF option_index >= Len(polls[poll_id].options) THEN "InvalidOption"
    ELSE IF wallet_address \in DOMAIN votes[poll_id] THEN "AlreadyVoted"
    ELSE "Ok"

VoteCheckDuplicateFirst(poll_id, wallet_address, option_index, current_time) ==
    IF poll_id \notin DOMAIN polls THEN "PollNotFound"
    ELSE IF ~polls[poll_id].active THEN "PollNotActive"
    ELSE IF current_time < polls[poll_id].start_time THEN "PollNotActive"
    ELSE IF current_time > polls[poll_id].end_time THEN "PollAlreadyEnded"
    ELSE IF wallet_address \in DOMAIN votes[poll_id] THEN "AlreadyVoted"
    ELSE IF option_index >= Len(polls[poll_id].options) THEN "InvalidOption"
    ELSE "Ok"

VoteCheckNoActiveCheck(poll_id, wallet_address, option_index, current_time) ==
    IF poll_id \notin DOMAIN polls THEN "PollNotFound"
    ELSE IF current_time < polls[poll_id].start_time THEN "PollNotActive"
    ELSE IF current_time > polls[poll_id].end_time THEN "PollAlreadyEnded"
    ELSE IF option_index >= Len(polls[poll_id].options) THEN "InvalidOption"
    ELSE IF wallet_address \in DOMAIN votes[poll_id] THEN "AlreadyVoted"
    ELSE "Ok"

VoteCheckEndExclusive(poll_id, wallet_address, option_index, current_time) ==
    IF poll_id \notin DOMAIN polls THEN "PollNotFound"
    ELSE IF ~polls[poll_id].active THEN "PollNotActive"
    ELSE IF current_time < polls[poll_id].start_time THEN "PollNotActive"
    ELSE IF current_time >= polls[poll_id].end_time THEN "PollAlreadyEnded"
    ELSE IF option_index >= Len(polls[poll_id].options) THEN "InvalidOption"
    ELSE IF wallet_address \in DOMAIN votes[poll_id] THEN "AlreadyVoted"
    ELSE "Ok"

VoteCheckOptionFirst(poll_id, wallet_address, option_index, current_time) ==
    IF poll_id \notin DOMAIN polls THEN "PollNotFound"
    ELSE IF option_index >= Len(polls[poll_id].options) THEN "InvalidOption"
    ELSE IF ~polls[poll_id].active THEN "PollNotActive"
    ELSE IF current_time < polls[poll_id].start_time THEN "PollNotActive"
    ELSE IF current_time > polls[poll_id].end_time THEN "PollAlreadyEnded"
    ELSE IF wallet_address \in DOMAIN votes[poll_id] THEN "AlreadyVoted"
    ELSE "Ok"

VoteCheck(poll_id, wallet_address, option_index, current_time) ==
    IF poll_id \notin DOMAIN polls THEN "PollNotFound"
    ELSE IF ~polls[poll_id].active THEN "PollNotActive"
    ELSE IF current_time < polls[poll_id].start_time THEN "PollNotActive"
    ELSE IF current_time > polls[poll_id].end_time THEN "PollAlreadyEnded"
    ELSE IF option_index >= Len(polls[poll_id].options) THEN "InvalidOption"
    ELSE IF poll_id \notin DOMAIN votes THEN "Panic"
    ELSE IF wallet_address \in DOMAIN votes[poll_id] THEN "AlreadyVoted"
    ELSE "Ok"

(* The two unwraps that follow the insertion of the ballot find their entry. *)
TallyLookup(poll_id, option_index) ==
    /\ poll_id \in DOMAIN results
    /\ option_index \in DOMAIN results[poll_id].counts

RecordVoteReplace(poll_votes, wallet_address, option_index) ==
    Insert(<< >>, wallet_address, option_index)

RecordVote(poll_votes, wallet_address, option_index) ==
    Insert(poll_votes, wallet_address, option_index)

UpdateResultsNoTotal(r, option_index) ==
    [counts |-> [r.counts EXCEPT ![option_index] = @ + 1],
     total_votes |-> r.total_votes]

UpdateResultsFirstOption(r, option_index) ==
    [counts |-> [r.counts EXCEPT ![0] = @ + 1],
     total_votes |-> r.total_votes + 1]

UpdateResultsSetOne(r, option_index) ==
    [counts |-> [r.counts EXCEPT ![option_index] = 1],
     total_votes |-> r.total_votes + 1]

UpdateResults(r, option_index) ==
    [counts |-> [r.counts EXCEPT ![option_index] = @ + 1],
     total_votes |-> r.total_votes + 1]

(* A variant of vote that writes the ballot before it looks for an earlier one. *)
VoteInsertBeforeDuplicateCheck(poll_id, wallet_address, option_index) ==
    LET res == VoteCheck(poll_id, wallet_address, option_index, now)
    IN /\ IF res \in {"Ok", "AlreadyVoted"}
          THEN votes' = [votes EXCEPT ![poll_id] =
                            RecordVote(@, wallet_address, option_index)]
          ELSE UNCHANGED votes
       /\ IF res = "Ok"
          THEN /\ results' = [results EXCEPT ![poll_id] = UpdateResults(@, option_index)]
               /\ succ' = [succ EXCEPT ![<<poll_id, wallet_address>>] = @ + 1]
          ELSE UNCHANGED <<results, succ>>
       /\ last' = Call("vote", poll_id, wallet_address, option_index, 0, 0, 0, res, 0)
       /\ prev' = Registry
       /\ UNCHANGED <<polls, poll_counter, owner, now, created>>

Vote(poll_id, wallet_address, option_index) ==
    LET chk == VoteCheck(poll_id, wallet_address, option_index, now)
        res == IF chk = "Ok" /\ ~TallyLookup(poll_id, option_index) THEN "Panic" ELSE chk
    IN /\ IF chk = "Ok"
          THEN votes' = [votes EXCEPT ![poll_id] =
                            RecordVote(@, wallet_address, option_index)]
          ELSE UNCHANGED votes
       /\ IF res = "Ok"
          THEN /\ results' = [results EXCEPT ![poll_id] = UpdateResults(@, option_index)]
               /\ succ' = [succ EXCEPT ![<<poll_id, wallet_address>>] = @ + 1]
          ELSE UNCHANGED <<results, succ>>
       /\ last' = Call("vote", poll_id, wallet_address, option_index, 0, 0, 0, res, 0)
       /\ prev' = Registry
       /\ UNCHANGED <<polls, poll_counter, owner, now, created>>

VoteCall(poll_id, wallet_address, option_index) ==
    /\ Vote(poll_id, wallet_address, option_index)
    /\ UNCHANGED inflight

CloseCheckOwnerTypo(poll_id, caller) ==
    IF poll_id \notin DOMAIN polls THEN "PollNotFound"
    ELSE IF polls[poll_id].creator # caller /\ owner = caller THEN "Unauthorized"
    ELSE "Ok"

CloseCheckRejectClosed(poll_id, caller) ==
    IF poll_id \notin DOMAIN polls THEN "PollNotFound"
    ELSE IF polls[poll_id].creator # caller /\ owner # caller THEN "Unauthorized"
    ELSE IF ~polls[poll_id].active THEN "PollNotActive"
    ELSE "Ok"

CloseCheck(poll_id, caller) ==
    IF poll_id \notin DOMAIN polls THEN "PollNotFound"
    ELSE IF polls[poll_id].creator # caller /\ owner # caller THEN "Unauthorized"
    ELSE "Ok"

ClosePoll(poll_id, caller) ==
    LET res == CloseCheck(poll_id, caller)
    IN /\ IF res = "Ok"
          THEN polls' = [polls EXCEPT ![poll_id].active = FALSE]
          ELSE UNCHANGED polls
       /\ last' = Call("close_poll", poll_id, caller, 0, 0, 0, 0, res, 0)
       /\ prev' = Registry
       /\ UNCHANGED <<votes, results, poll_counter, owner, now, created, succ, inflight>>

SweepAssign(poll, current_time) ==
    [poll EXCEPT !.active = ~(current_time > poll.end_time)]

SweepAtEnd(poll, current_time) ==
    IF poll.active /\ current_time >= poll.end_time
    THEN [poll EXCEPT !.active = FALSE]
    ELSE poll

Sweep(poll, current_time) ==
    IF poll.active /\ current_time > poll.end_time
    THEN [poll EXCEPT !.active = FALSE]
    ELSE poll

ProcessExpiredPolls ==
    /\ polls' = [id \in DOMAIN polls |-> Sweep(polls[id], now)]
    /\ last' = Call("process_expired_polls", 0, "", 0, 0, 0, 0, "Ok", 0)
    /\ prev' = Registry
    /\ UNCHANGED <<votes, results, poll_counter, owner, now, created, succ, inflight>>

(* ------------------------------ queries ------------------------------- *)
Unchanged == UNCHANGED <<polls, votes, results, poll_counter, owner, now, created, succ, inflight>>

GetPoll(poll_id) ==
    /\ last' = IF poll_id \in DOMAIN polls
               THEN Query("get_poll", poll_id, "", "Ok", polls[poll_id])
               ELSE Query("get_poll", poll_id, "", "PollNotFound", << >>)
    /\ prev' = Registry
    /\ Unchanged

GetResults(poll_id) ==
    /\ last' = IF poll_id \in DOMAIN results
               THEN Query("get_results", poll_id, "", "Ok", results[poll_id])
               ELSE Query("get_results", poll_id, "", "PollNotFound", << >>)
    /\ prev' = Registry
    /\ Unchanged

(* A HashMap is iterated in an order the program does not choose: any order of *)
(* its keys.                                                                   *)
Orderings(keys) ==
    {order \in [1..Cardinality(keys) -> keys] :
        \A i, j \in 1..Cardinality(keys) : i # j => order[i] # order[j]}

IsListedAlways(poll) == TRUE

IsListed(poll) == poll.active

GetActivePolls ==
    \E order \in Orderings(DOMAIN polls) :
        /\ last' = Query("get_active_polls", 0, "", "Ok",
                         SelectSeq(order, LAMBDA id : IsListed(polls[id])))
        /\ prev' = Registry
        /\ Unchanged

(* (count as f64 / total_votes as f64) * 100.0, as the exact fraction           *)
(* <<numerator, denominator>> the floating-point value approximates.            *)
Percentage(count, total_votes) ==
    IF total_votes > 0 THEN <<count * 100, total_votes>> ELSE <<0, 1>>

(* The map built by inserting, for each tally index in iteration order, the     *)
(* option's label -> (count, percentage): a later insert of the same label      *)
(* replaces the earlier one.                                                    *)
DetailedResults(poll, r, order) ==
    LET label(k) == poll.options[order[k] + 1]
        labels == {label(k) : k \in 1..Len(order)}
        winner(l) == order[CHOOSE k \in 1..Len(order) :
                            /\ label(k) = l
                            /\ \A j \in (k + 1)..Len(order) : label(j) # l]
    IN [l \in labels |->
            <<r.counts[winner(l)], Percentage(r.counts[winner(l)], r.total_votes)>>]

GetDetailedResults(poll_id) ==
    /\ IF poll_id \notin DOMAIN polls \/ poll_id \notin DOMAIN results
       THEN last' = Query("get_detailed_results", poll_id, "", "PollNotFound", << >>)
       ELSE IF \E i \in DOMAIN results[poll_id].counts : i >= Len(polls[poll_id].options)
       THEN last' = Query("get_detailed_results", poll_id, "", "Panic", << >>)
       ELSE \E order \in Orderings(DOMAIN results[poll_id].counts) :
                last' = Query("get_detailed_results", poll_id, "", "Ok",
                              DetailedResults(polls[poll_id], results[poll_id], order))
    /\ prev' = Registry
    /\ Unchanged

ContainsKeyAny(poll_votes, wallet_address) == DOMAIN poll_votes # {}

ContainsKey(poll_votes, wallet_address) == wallet_address \in DOMAIN poll_votes

(* A variant of has_voted that answers false for a poll it does not find. *)
HasVotedDefaultFalse(poll_id, wallet_address) ==
    /\ last' = IF poll_id \in DOMAIN votes
               THEN Query("has_voted", poll_id, wallet_address, "Ok",
                          ContainsKey(votes[poll_id], wallet_address))
               ELSE Query("has_voted", poll_id, wallet_address, "Ok", FALSE)
    /\ prev' = Registry
    /\ Unchanged

HasVoted(poll_id, wallet_address) ==
    /\ last' = IF poll_id \in DOMAIN votes
               THEN Query("has_voted", poll_id, wallet_address, "Ok",
                          ContainsKey(votes[poll_id], wallet_address))
               ELSE Query("has_voted", poll_id, wallet_address, "PollNotFound", << >>)
    /\ prev' = Registry
    /\ Unchanged

(* The system clock advances. *)
Tick ==
    /\ now < MaxTime
    /\ now' = now + 1
    /\ last' = Call("tick", 0, "", 0, 0, 0, 0, "Ok", 0)
    /\ prev' = Registry
    /\ UNCHANGED <<polls, votes, results, poll_counter, owner, created, succ, inflight>>

DoCreatePoll ==
    \E creator \in Creators, options \in OptionLists,
       start_time \in StartTimes, end_time \in EndTimes :
        CreatePoll(creator, "title", "description", options, start_time, end_time)

DoVote ==
    \E poll_id \in PollIds, wallet_address \in Voters, option_index \in OptionIndexes :
        VoteCall(poll_id, wallet_address, option_index)

DoClosePoll ==
    \E poll_id \in PollIds, caller \in Addresses : ClosePoll(poll_id, caller)

DoGetPoll == \E poll_id \in PollIds : GetPoll(poll_id)

DoGetResults == \E poll_id \in PollIds : GetResults(poll_id)

DoGetDetailedResults == \E poll_id \in PollIds : GetDetailedResults(poll_id)

DoHasVoted == \E poll_id \in PollIds, wallet_address \in Voters : HasVoted(poll_id, wallet_address)

Next ==
    \/ DoCreatePoll
    \/ DoVote
    \/ DoClosePoll
    \/ ProcessExpiredPolls
    \/ DoGetPoll
    \/ DoGetResults
    \/ DoGetDetailedResults
    \/ GetActivePolls
    \/ DoHasVoted
    \/ Tick

Spec == Init /\ [][Next]_vars

(***************************************************************************)
(* Concurrent callers.  vote takes &mut self, so two calls on one          *)
(* VotingContract never overlap: callers that share the contract reach it  *)
(* one at a time (a lock or a message queue in front of it).  A caller     *)
(* issues one vote call (Submit), the call waits in flight, and the        *)
(* contract runs the pending calls in any order, each as one whole         *)
(* execution of vote (Serve).                                              *)
(***************************************************************************)
SameBallot(a, b) == a.poll_id = b.poll_id /\ a.who = b.who

Submit(c, poll_id, wallet_address, option_index) ==
    /\ inflight[c].state = "idle"
    /\ inflight' = [inflight EXCEPT ![c] =
                        [state |-> "pending", poll_id |-> poll_id, who |-> wallet_address,
                         option |-> option_index, result |-> "", overlap |-> FALSE]]
    /\ last' = Call("submit", 0, "", 0, 0, 0, 0, "Ok", 0)
    /\ prev' = Registry
    /\ UNCHANGED <<polls, votes, results, poll_counter, owner, now, created, succ>>

Serve(c) ==
    /\ inflight[c].state = "pending"
    /\ Vote(inflight[c].poll_id, inflight[c].who, inflight[c].option)
    /\ inflight' = [inflight EXCEPT ![c] =
                        [@ EXCEPT !.state = "done",
                                  !.result = last'.result,
                                  !.overlap = \E d \in Callers \ {c} :
                                                /\ inflight[d].state = "pending"
                                                /\ SameBallot(inflight[d], inflight[c])]]

DoSubmit ==
    \E c \in Callers, poll_id \in PollIds, wallet_address \in Voters,
       option_index \in OptionIndexes :
        Submit(c, poll_id, wallet_address, option_index)

DoServe == \E c \in Callers : Serve(c)

NextConc ==
    \/ DoCreatePoll
    \/ DoSubmit
    \/ DoServe
    \/ Tick

SpecConc == Init /\ [][NextConc]_vars

(***************************************************************************)
(* Polls whose options repeat a label.  create_poll does not compare the   *)
(* labels, so such a poll is created like any other.                       *)
(***************************************************************************)
OptionListsRepeated ==
    OptionLists \cup {[i \in 1..n |-> Labels[1]] : n \in 2..MaxOptions}

DoCreatePollRepeated ==
    \E creator \in Creators, options \in OptionListsRepeated,
       start_time \in StartTimes, end_time \in EndTimes :
        CreatePoll(creator, "title", "description", options, start_time, end_time)

NextRepeated ==
    \/ DoCreatePollRepeated
    \/ DoVote
    \/ DoGetDetailedResults
    \/ Tick

SpecRepeated == Init /\ [][NextRepeated]_vars

TypeOK ==
    /\ DOMAIN votes = DOMAIN polls
    /\ DOMAIN results = DOMAIN polls
    /\ Cardinality(DOMAIN polls) = poll_counter
    /\ now \in 0..MaxTime

(* ============================== claims ================================= *)
IsVoteOnExisting(call) == call.op = "vote" /\ call.poll_id \in DOMAIN polls

InWindow(poll, t) == poll.start_time <= t /\ t <= poll.end_time

(* The most recent call is a vote by a voter whose ballot was already in the *)
(* poll's set when the call began.                                            *)
SecondAttempt ==
    /\ last.op = "vote"
    /\ last.poll_id \in DOMAIN prev.votes
    /\ last.who \in DOMAIN prev.votes[last.poll_id]

AtMostOneSuccess == \A pw \in DOMAIN succ : succ[pw] <= 1

\* C1 as stated: at most one vote per (poll_id, voter) succeeds, and every later
\* attempt by that voter in that poll, with any option index, fails with
\* AlreadyVoted and leaves total_votes unchanged.
C1_SecondAttemptAlwaysAlreadyVoted ==
    /\ AtMostOneSuccess
    /\ SecondAttempt =>
        /\ last.result = "AlreadyVoted"
        /\ results[last.poll_id].total_votes = prev.results[last.poll_id].total_votes

\* C1 amended: at most one vote per (poll_id, voter) succeeds; every later attempt
\* by that voter in that poll fails and leaves total_votes unchanged, and the error
\* is AlreadyVoted exactly when the poll is active, the time is within
\* [start_time, end_time] and the option index is valid (otherwise it is the error
\* of the earlier check).
C1_SecondAttemptFails ==
    /\ AtMostOneSuccess
    /\ SecondAttempt =>
        LET poll == prev.polls[last.poll_id]
            reached == /\ poll.active
                       /\ InWindow(poll, now)
                       /\ last.option < Len(poll.options)
        IN /\ last.result # "Ok"
           /\ results[last.poll_id].total_votes = prev.results[last.poll_id].total_votes
           /\ last.result = "AlreadyVoted" <=> reached

C1_Witness ==
    /\ SecondAttempt
    /\ last.result = "AlreadyVoted"
    /\ succ[<<last.poll_id, last.who>>] = 1
    /\ votes[last.poll_id][last.who] # last.option

\* C2: in every reachable state, each poll's total_votes equals the sum of its
\* per-option counts and the number of entries of its ballot set.
C2_TotalIsSumAndBallotCount ==
    \A p \in DOMAIN polls :
        /\ results[p].total_votes = SumCounts(results[p].counts)
        /\ results[p].total_votes = Cardinality(DOMAIN votes[p])

C2_Witness ==
    \E p \in DOMAIN polls :
        /\ results[p].total_votes = 2
        /\ results[p].counts[0] = 1
        /\ results[p].counts[1] = 1

\* C3: a create_poll call with at least two options and start_time < end_time
\* succeeds and returns an id no earlier call returned; the ids returned are
\* 0, 1, 2, ... in order; a failed create_poll consumes no id.
C3_FreshIncreasingIds ==
    /\ (last.op = "create_poll" /\ last.nopts >= 2 /\ last.start < last.end) =>
        /\ last.result = "Ok"
        /\ last.ret \notin DOMAIN prev.polls
        /\ last.ret \in DOMAIN polls
        /\ polls[last.ret].id = last.ret
        /\ created[Len(created)] = last.ret
        /\ \A i \in 1..(Len(created) - 1) : created[i] < last.ret
    /\ (last.op = "create_poll" /\ last.result # "Ok") =>
        /\ poll_counter = prev.poll_counter
        /\ DOMAIN polls = DOMAIN prev.polls
    /\ Len(created) = poll_counter
    /\ \A i \in 1..Len(created) : created[i] = i - 1

C3_Witness ==
    /\ last.op = "create_poll"
    /\ last.result = "Ok"
    /\ last.ret = 1
    /\ created = <<0, 1>>

\* C4: once a poll's active flag is false it is false after every later operation.
C4_ClosedIsTerminal ==
    \A p \in DOMAIN prev.polls :
        ~prev.polls[p].active => (p \in DOMAIN polls /\ ~polls[p].active)

C4_Witness ==
    \E p \in DOMAIN prev.polls :
        /\ ~prev.polls[p].active
        /\ now <= prev.polls[p].end_time
        /\ last.op = "process_expired_polls"

\* C5: close_poll on an existing poll succeeds only for the poll's creator or the
\* contract owner; for any other caller it returns Unauthorized and changes nothing.
C5_CloseNeedsAuthorization ==
    (last.op = "close_poll" /\ last.poll_id \in DOMAIN prev.polls) =>
        LET authorized == last.who \in {prev.polls[last.poll_id].creator, prev.owner}
        IN /\ last.result = "Ok" => authorized
           /\ ~authorized => (last.result = "Unauthorized" /\ Registry = prev)

C5_Witness ==
    /\ last.op = "close_poll"
    /\ last.poll_id \in DOMAIN prev.polls
    /\ last.result = "Unauthorized"
    /\ last.who \notin {polls[last.poll_id].creator, owner}
    /\ polls[last.poll_id].active

\* C6: a create_poll or vote call that returns an error leaves polls, ballot sets,
\* tallies, total_votes, poll_counter and owner exactly as they were.
C6_FailureChangesNothing ==
    (last.op \in {"create_poll", "vote"} /\ last.result # "Ok") => Registry = prev

C6_Witness ==
    /\ IsVoteOnExisting(last)
    /\ last.result = "PollAlreadyEnded"
    /\ results[last.poll_id].total_votes = 2
    /\ poll_counter = 1

(* The callers whose vote for (p, w) returned success. *)
OkCalls(p, w) ==
    {c \in Callers : /\ inflight[c].state = "done"
                     /\ inflight[c].result = "Ok"
                     /\ inflight[c].poll_id = p
                     /\ inflight[c].who = w}

\* C7: with callers issuing vote calls concurrently and the contract running them
\* one at a time in any order, at most one call per (poll_id, voter) returns
\* success, and the voter is counted once in the poll's tally.
C7_ConcurrentVotesCountOnce ==
    \A p \in DOMAIN polls :
        /\ \A w \in Voters :
            /\ Cardinality(OkCalls(p, w)) <= 1
            /\ (OkCalls(p, w) # {}) <=> (w \in DOMAIN votes[p])
        /\ results[p].total_votes = Cardinality({w \in Voters : OkCalls(p, w) # {}})
        /\ \A o \in DOMAIN results[p].counts :
            results[p].counts[o] =
                Cardinality({w \in Voters :
                    \E c \in OkCalls(p, w) : inflight[c].option = o})

C7_Witness ==
    \E c, d \in Callers :
        /\ c # d
        /\ inflight[c].state = "done" /\ inflight[d].state = "done"
        /\ SameBallot(inflight[c], inflight[d])
        /\ inflight[c].result = "Ok"
        /\ inflight[d].result = "AlreadyVoted"
        /\ inflight[c].overlap
        /\ inflight[c].option # inflight[d].option

\* C8 as stated: on an existing poll, vote fails with PollAlreadyEnded when
\* now > end_time, and with PollNotActive when now < start_time or the poll was
\* closed.
C8_EndedAlwaysPollAlreadyEnded ==
    IsVoteOnExisting(last) =>
        LET poll == polls[last.poll_id]
        IN /\ now > poll.end_time => last.result = "PollAlreadyEnded"
           /\ (now < poll.start_time \/ ~poll.active) => last.result = "PollNotActive"

\* C8 amended: on an existing poll, vote fails with PollNotActive when the poll is
\* inactive (closed or swept) or now < start_time, and with PollAlreadyEnded when
\* the poll is still active and now > end_time.
C8_TimingErrors ==
    IsVoteOnExisting(last) =>
        LET poll == polls[last.poll_id]
        IN /\ (poll.active /\ now > poll.end_time) => last.result = "PollAlreadyEnded"
           /\ (now < poll.start_time \/ ~poll.active) => last.result = "PollNotActive"

C8_Witness ==
    /\ IsVoteOnExisting(last)
    /\ ~polls[last.poll_id].active
    /\ now > polls[last.poll_id].end_time
    /\ last.result = "PollNotActive"

\* C9 as stated: vote on an existing poll fails with InvalidOption if and only if
\* option_index >= options.len().
C9_InvalidOptionIffOutOfRange ==
    IsVoteOnExisting(last) =>
        (last.result = "InvalidOption"
            <=> last.option >= Len(polls[last.poll_id].options))

\* C9 amended: vote fails with InvalidOption if and only if the poll exists, is
\* active, the time is within [start_time, end_time] and
\* option_index >= options.len().
C9_InvalidOptionIffReached ==
    last.op = "vote" =>
        (last.result = "InvalidOption"
            <=> /\ last.poll_id \in DOMAIN polls
                /\ polls[last.poll_id].active
                /\ InWindow(polls[last.poll_id], now)
                /\ last.option >= Len(polls[last.poll_id].options))

C9_Witness ==
    /\ IsVoteOnExisting(last)
    /\ last.result = "InvalidOption"
    /\ last.who \in DOMAIN votes[last.poll_id]
    /\ last.option >= Len(polls[last.poll_id].options)

\* C10 as stated: create_poll fails with InvalidTimeRange whenever
\* start_time >= end_time, whatever the number of options.
C10_BadRangeAlwaysInvalidTimeRange ==
    (last.op = "create_poll" /\ last.start >= last.end)
        => last.result = "InvalidTimeRange"

\* C10 amended: create_poll fails with InvalidTimeRange whenever
\* start_time >= end_time and at least two options are supplied (with fewer than
\* two options it fails with InvalidOption instead).
C10_BadRangeWithEnoughOptions ==
    (last.op = "create_poll" /\ last.start >= last.end) =>
        /\ last.nopts >= 2 => last.result = "InvalidTimeRange"
        /\ last.nopts < 2 => last.result = "InvalidOption"

C10_Witness ==
    /\ last.op = "create_poll"
    /\ last.start = last.end
    /\ last.nopts >= 2
    /\ last.result = "InvalidTimeRange"
    /\ poll_counter = 1

\* C11: create_poll fails with InvalidOption whenever fewer than two options are
\* supplied, whatever the time range.
C11_TooFewOptions ==
    (last.op = "create_poll" /\ last.nopts < 2) => last.result = "InvalidOption"

C11_Witness ==
    /\ last.op = "create_poll"
    /\ last.nopts < 2
    /\ last.start >= last.end
    /\ last.result = "InvalidOption"
    /\ poll_counter = 1

\* C12: process_expired_polls at time now sets active = false for exactly the polls
\* that were active with now > end_time; every other poll keeps its flag, and no
\* ballot set, tally, poll_counter or other poll field changes.
C12_SweepClosesExactlyExpired ==
    last.op = "process_expired_polls" =>
        /\ DOMAIN polls = DOMAIN prev.polls
        /\ \A p \in DOMAIN prev.polls :
            /\ polls[p].active =
                (prev.polls[p].active /\ ~(now > prev.polls[p].end_time))
            /\ [polls[p] EXCEPT !.active = TRUE] = [prev.polls[p] EXCEPT !.active = TRUE]
        /\ votes = prev.votes
        /\ results = prev.results
        /\ poll_counter = prev.poll_counter
        /\ owner = prev.owner

C12_Witness ==
    /\ last.op = "process_expired_polls"
    /\ \E p, q \in DOMAIN prev.polls :
        /\ prev.polls[p].active /\ ~polls[p].active
        /\ polls[q].active /\ now = polls[q].end_time

\* C13: close_poll by the creator or the owner on an already-closed poll succeeds
\* and leaves the whole registry unchanged; by anybody else it still returns
\* Unauthorized.
C13_CloseIsIdempotent ==
    (/\ last.op = "close_poll"
     /\ last.poll_id \in DOMAIN prev.polls
     /\ ~prev.polls[last.poll_id].active) =>
        IF last.who \in {prev.polls[last.poll_id].creator, prev.owner}
        THEN last.result = "Ok" /\ Registry = prev
        ELSE last.result = "Unauthorized" /\ Registry = prev

C13_Witness ==
    /\ last.op = "close_poll"
    /\ last.poll_id \in DOMAIN prev.polls
    /\ ~prev.polls[last.poll_id].active
    /\ last.result = "Ok"
    /\ last.who = prev.owner

\* C14: a successful vote(poll_id, voter, option_index) adds exactly the entry
\* voter -> option_index to that poll's ballot set, adds one to that option's count
\* and to total_votes, and leaves every other count, every other poll's ballot set
\* and tally, every poll definition and poll_counter unchanged.
C14_VoteEffect ==
    (last.op = "vote" /\ last.result = "Ok") =>
        LET p == last.poll_id
        IN /\ last.who \notin DOMAIN prev.votes[p]
           /\ DOMAIN votes[p] = DOMAIN prev.votes[p] \cup {last.who}
           /\ votes[p][last.who] = last.option
           /\ \A w \in DOMAIN prev.votes[p] : votes[p][w] = prev.votes[p][w]
           /\ DOMAIN results[p].counts = DOMAIN prev.results[p].counts
           /\ \A o \in DOMAIN results[p].counts :
                results[p].counts[o] =
                    prev.results[p].counts[o] + (IF o = last.option THEN 1 ELSE 0)
           /\ results[p].total_votes = prev.results[p].total_votes + 1
           /\ DOMAIN votes = DOMAIN prev.votes
           /\ DOMAIN results = DOMAIN prev.results
           /\ \A q \in DOMAIN prev.votes \ {p} :
                votes[q] = prev.votes[q] /\ results[q] = prev.results[q]
           /\ polls = prev.polls
           /\ poll_counter = prev.poll_counter
           /\ owner = prev.owner

C14_Witness ==
    /\ last.op = "vote"
    /\ last.result = "Ok"
    /\ last.poll_id = 1
    /\ last.option = 1
    /\ results[0].total_votes = 1
    /\ results[1].total_votes = 2

IsDetailedOk(call) ==
    /\ call.op = "get_detailed_results"
    /\ call.result = "Ok"
    /\ call.poll_id \in DOMAIN polls

RECURSIVE SumNumerators(_, _)
SumNumerators(detailed, labels) ==
    IF labels = {} THEN 0
    ELSE LET l == CHOOSE x \in labels : TRUE
         IN detailed[l][2][1] + SumNumerators(detailed, labels \ {l})

\* C15: for every existing poll the percentages returned by get_detailed_results sum
\* to 100 when total_votes > 0 (all of them are fractions of total_votes), and are
\* all 0 when total_votes = 0.
C15_PercentagesSumTo100 ==
    IsDetailedOk(last) =>
        LET total == results[last.poll_id].total_votes
        IN IF total > 0
           THEN /\ \A l \in DOMAIN last.out : last.out[l][2][2] = total
                /\ SumNumerators(last.out, DOMAIN last.out) = 100 * total
           ELSE \A l \in DOMAIN last.out : last.out[l][2][1] = 0

\* C16: for an existing poll get_detailed_results maps the label of every option
\* index to (count, percentage), count being the tally count of that index and
\* percentage count / total_votes * 100 (0 when total_votes = 0), and the call leaves
\* the registry unchanged.
C16_DetailedResultsPerOption ==
    IsDetailedOk(last) =>
        LET poll == polls[last.poll_id]
            r == results[last.poll_id]
        IN /\ \A i \in 0..(Len(poll.options) - 1) :
                /\ poll.options[i + 1] \in DOMAIN last.out
                /\ LET entry == last.out[poll.options[i + 1]]
                   IN /\ entry[1] = r.counts[i]
                      /\ IF r.total_votes > 0
                         THEN entry[2][1] * r.total_votes = r.counts[i] * 100 * entry[2][2]
                         ELSE entry[2][1] = 0
           /\ Registry = prev

\* C17: for an existing poll has_voted(poll_id, voter) returns true exactly when a
\* vote call by that voter on that poll has succeeded before, and false otherwise;
\* for an unknown poll id it returns PollNotFound.
C17_HasVotedIffVoteSucceeded ==
    last.op = "has_voted" =>
        IF last.poll_id \in DOMAIN polls
        THEN /\ last.result = "Ok"
             /\ last.out = (succ[<<last.poll_id, last.who>>] > 0)
        ELSE last.result = "PollNotFound"

C17_Witness ==
    /\ last.op = "has_voted"
    /\ last.poll_id \in DOMAIN polls
    /\ last.out = FALSE
    /\ votes[last.poll_id] # << >>

\* C18: in every reachable state get_active_polls returns, without duplicates,
\* exactly the ids of the polls whose active flag is true.
C18_ActivePollsListed ==
    last.op = "get_active_polls" =>
        /\ \A i, j \in 1..Len(last.out) : i # j => last.out[i] # last.out[j]
        /\ {last.out[i] : i \in 1..Len(last.out)} = {p \in DOMAIN polls : polls[p].active}

C18_Witness ==
    /\ last.op = "get_active_polls"
    /\ poll_counter = 2
    /\ last.out = <<1>>

\* C19: a ballot recorded for a voter in one poll never makes a vote by that voter
\* in a different poll fail with AlreadyVoted, and a vote changes the ballot set and
\* the tally of no other poll.
C19_BallotsArePerPoll ==
    last.op = "vote" =>
        /\ last.result = "AlreadyVoted" =>
            (/\ last.poll_id \in DOMAIN prev.votes
             /\ last.who \in DOMAIN prev.votes[last.poll_id])
        /\ \A q \in DOMAIN prev.votes \ {last.poll_id} :
            /\ q \in DOMAIN votes /\ votes[q] = prev.votes[q]
            /\ q \in DOMAIN results /\ results[q] = prev.results[q]

C19_Witness ==
    /\ last.op = "vote"
    /\ last.result = "Ok"
    /\ \E q \in DOMAIN votes \ {last.poll_id} : last.who \in DOMAIN votes[q]

ErrorKinds ==
    {"Unauthorized", "PollNotFound", "PollNotActive", "PollAlreadyEnded", "PollNotEnded",
     "InvalidOption", "AlreadyVoted", "InvalidTimeRange"}

\* C20: no call panics: every call returns success or one of the eight error kinds,
\* and the entries vote and get_detailed_results look up without a check exist: each
\* poll has a ballot set and a tally, and the tally has an entry for exactly the
\* indexes of the poll's options.
C20_NoPanic ==
    /\ last.result \in {"Ok"} \cup ErrorKinds
    /\ \A p \in DOMAIN polls :
        /\ p \in DOMAIN votes
        /\ p \in DOMAIN results
        /\ DOMAIN results[p].counts = 0..(Len(polls[p].options) - 1)

C20_Witness ==
    /\ IsDetailedOk(last)
    /\ \E w \in DOMAIN votes[last.poll_id] :
        votes[last.poll_id][w] = Len(polls[last.poll_id].options) - 1

(* The poll with its active flag masked: the fields that never change. *)
Definition(poll) == [poll EXCEPT !.active = TRUE]

\* C21: polls and ballots are never deleted or rewritten: every poll that existed
\* before an operation exists after it with the same id, creator, options,
\* start_time and end_time (only active may differ), and every ballot
\* voter -> option_index recorded before it is still recorded with the same index.
C21_NothingDeletedOrRewritten ==
    \A p \in DOMAIN prev.polls :
        /\ p \in DOMAIN polls
        /\ Definition(polls[p]) = Definition(prev.polls[p])
        /\ polls[p].id = p
        /\ p \in DOMAIN votes
        /\ \A w \in DOMAIN prev.votes[p] :
            /\ w \in DOMAIN votes[p]
            /\ votes[p][w] = prev.votes[p][w]

C21_Witness ==
    /\ last.op = "vote"
    /\ last.result = "Ok"
    /\ prev.votes[last.poll_id] # << >>
    /\ ~polls[0].active
    /\ poll_counter = 2

\* C22: vote, close_poll, get_poll, get_results, get_detailed_results and has_voted
\* return PollNotFound exactly when poll_id was never returned by a successful
\* create_poll, whatever the other arguments, and then leave the registry unchanged.
C22_PollNotFoundIffNeverCreated ==
    last.op \in {"vote", "close_poll", "get_poll", "get_results",
                 "get_detailed_results", "has_voted"} =>
        /\ last.result = "PollNotFound"
            <=> ~(\E i \in 1..Len(created) : created[i] = last.poll_id)
        /\ last.result = "PollNotFound" => Registry = prev

C22_Witness ==
    /\ last.op = "close_poll"
    /\ last.result = "PollNotFound"
    /\ last.who \notin {"owner"} \cup Creators
    /\ last.poll_id = 1
    /\ created = <<0>>

\* C23: immediately after a successful create_poll the new poll is active and has
\* the supplied creator, options, start_time and end_time; its ballot set is empty;
\* its tally has one entry, equal to 0, for each option index 0..options.len()-1
\* and total_votes = 0; every poll, ballot set and tally that existed before is
\* unchanged.  The time range is not compared with the current time.
C23_CreateEffect ==
    (last.op = "create_poll" /\ last.result = "Ok") =>
        LET p == last.ret
        IN /\ p \notin DOMAIN prev.polls
           /\ DOMAIN polls = DOMAIN prev.polls \cup {p}
           /\ DOMAIN votes = DOMAIN prev.votes \cup {p}
           /\ DOMAIN results = DOMAIN prev.results \cup {p}
           /\ polls[p].active
           /\ polls[p].id = p
           /\ polls[p].creator = last.who
           /\ polls[p].options = last.options
           /\ polls[p].start_time = last.start
           /\ polls[p].end_time = last.end
           /\ votes[p] = << >>
           /\ DOMAIN results[p].counts = 0..(Len(last.options) - 1)
           /\ \A i \in DOMAIN results[p].counts : results[p].counts[i] = 0
           /\ results[p].total_votes = 0
           /\ \A q \in DOMAIN prev.polls :
                /\ polls[q] = prev.polls[q]
                /\ votes[q] = prev.votes[q]
                /\ results[q] = prev.results[q]

C23_Witness ==
    /\ last.op = "create_poll"
    /\ last.result = "Ok"
    /\ last.ret = 1
    /\ now > last.end
    /\ polls[1].active
    /\ results[0].total_votes = 2

(* The clock as it was when the most recent operation began: only Tick moves it. *)
TimeBefore == IF last.op = "tick" THEN now - 1 ELSE now

(* Voting on the poll is over at time t: the poll is inactive or past its end. *)
IsOver(poll, t) == ~poll.active \/ t > poll.end_time

\* C24: results are frozen once voting is over.  The clock only moves forward
\* (Tick), and for every poll that was inactive or past its end_time when the most
\* recent operation began, the poll is still over after it, a vote on it failed,
\* and its ballot set, per-option counts and total_votes are what they were.
C24_ResultsFrozen ==
    /\ TimeBefore <= now
    /\ \A p \in DOMAIN prev.polls :
        IsOver(prev.polls[p], TimeBefore) =>
            /\ IsOver(polls[p], now)
            /\ (last.op = "vote" /\ last.poll_id = p) => last.result # "Ok"
            /\ votes[p] = prev.votes[p]
            /\ results[p] = prev.results[p]

C24_Witness ==
    /\ last.op = "vote"
    /\ last.poll_id \in DOMAIN polls
    /\ ~polls[last.poll_id].active
    /\ InWindow(polls[last.poll_id], now)
    /\ last.who \notin DOMAIN votes[last.poll_id]
    /\ last.option < Len(polls[last.poll_id].options)
    /\ results[last.poll_id].total_votes = 1

\* C25: the voting window is inclusive at both ends: on an active poll a vote with a
\* valid option index by a voter who has not voted yet succeeds exactly when
\* start_time <= now <= end_time, in particular at now = start_time and at
\* now = end_time; it fails with PollNotActive for now < start_time and with
\* PollAlreadyEnded for now > end_time.
C25_WindowIsInclusive ==
    (/\ last.op = "vote"
     /\ last.poll_id \in DOMAIN prev.polls
     /\ prev.polls[last.poll_id].active
     /\ last.option < Len(prev.polls[last.poll_id].options)
     /\ last.who \notin DOMAIN prev.votes[last.poll_id]) =>
        LET poll == prev.polls[last.poll_id]
        IN /\ last.result = "Ok" <=> InWindow(poll, now)
           /\ now = poll.start_time => last.result = "Ok"
           /\ now = poll.end_time => last.result = "Ok"
           /\ now < poll.start_time => last.result = "PollNotActive"
           /\ now > poll.end_time => last.result = "PollAlreadyEnded"

C25_Witness ==
    /\ last.op = "vote"
    /\ last.result = "Ok"
    /\ now = polls[last.poll_id].end_time
    /\ \E q \in DOMAIN polls \ {last.poll_id} :
        /\ now > polls[q].end_time
        /\ last.who \in DOMAIN votes[q]

(* The first check of vote that fails, in the order the claim lists them. *)
FirstFailing(reg, poll_id, wallet_address, option_index, t) ==
    LET failing ==
            <<poll_id \notin DOMAIN reg.polls,
              poll_id \in DOMAIN reg.polls /\ ~reg.polls[poll_id].active,
              poll_id \in DOMAIN reg.polls /\ t < reg.polls[poll_id].start_time,
              poll_id \in DOMAIN reg.polls /\ t > reg.polls[poll_id].end_time,
              poll_id \in DOMAIN reg.polls
                /\ option_index >= Len(reg.polls[poll_id].options),
              poll_id \in DOMAIN reg.votes
                /\ wallet_address \in DOMAIN reg.votes[poll_id]>>
        errors == <<"PollNotFound", "PollNotActive", "PollNotActive", "PollAlreadyEnded",
                    "InvalidOption", "AlreadyVoted">>
        hits == {k \in 1..6 : failing[k]}
    IN IF hits = {} THEN "Ok"
       ELSE errors[CHOOSE k \in hits : \A j \in hits : k <= j]

\* C26: a vote call that violates several conditions returns the error of the first
\* failing check in the order PollNotFound, PollNotActive (inactive), PollNotActive
\* (now < start_time), PollAlreadyEnded (now > end_time), InvalidOption,
\* AlreadyVoted; so a vote past end_time returns PollAlreadyEnded while the poll is
\* still active and PollNotActive once it is closed or swept.
C26_FirstFailingCheckWins ==
    last.op = "vote" =>
        /\ last.result = FirstFailing(prev, last.poll_id, last.who, last.option, now)
        /\ (last.poll_id \in DOMAIN prev.polls /\ now > prev.polls[last.poll_id].end_time) =>
            last.result = IF prev.polls[last.poll_id].active
                          THEN "PollAlreadyEnded" ELSE "PollNotActive"

C26_Witness ==
    /\ last.op = "vote"
    /\ last.poll_id \in DOMAIN polls
    /\ polls[last.poll_id].active
    /\ now > polls[last.poll_id].end_time
    /\ last.option >= Len(polls[last.poll_id].options)
    /\ last.who \in DOMAIN votes[last.poll_id]
    /\ last.result = "PollAlreadyEnded"

\* C27: in every reachable state, for every poll and every option index i of it, the
\* tally count of i is the number of voters in the poll's ballot set whose recorded
\* choice is i, and every recorded choice is a valid index of the poll.
C27_TallyMatchesBallots ==
    \A p \in DOMAIN polls :
        /\ \A i \in 0..(Len(polls[p].options) - 1) :
            /\ i \in DOMAIN results[p].counts
            /\ results[p].counts[i] =
                    Cardinality({w \in DOMAIN votes[p] : votes[p][w] = i})
        /\ \A w \in DOMAIN votes[p] : votes[p][w] < Len(polls[p].options)

C27_Witness ==
    \E p \in DOMAIN polls :
        /\ results[p].counts[1] = 2
        /\ results[p].counts[0] = 0
        /\ ~polls[p].active
====
